---- MODULE Spec2Model ----
(***************************************************************************)
(* A model of the hipchat client library (package hipchat).                *)
(*                                                                         *)
(* The current client (Client{AuthToken, BaseURL}, NewClient, PostMessage, *)
(* RoomHistory, RoomList, getError) is modelled step by step; the earlier  *)
(* revisions of PostMessage (hipchat.go) and RoomList that use the         *)
(* package-level baseURL are modelled beside it as separate operations.    *)
(*                                                                         *)
(* A response body is a parsed JSON value (or a text that is not JSON) and *)
(* encoding/json's Unmarshal is modelled by what it does on a Go type:     *)
(* syntax errors, type mismatches, null, unknown keys, case-insensitive    *)
(* keys, pointers, slices.                                                 *)
(***************************************************************************)
EXTENDS Integers, Sequences, FiniteSets, TLC

VARIABLES client, ctor, pc, op, req, args, seen, stored, loaded, uri,
          payload, ncall, nreq, hops, resent, method, conn, resp, result, calls

vars == <<client, ctor, pc, op, req, args, seen, stored, loaded, uri,
          payload, ncall, nreq, hops, resent, method, conn, resp, result, calls>>

\* What net/http holds of a call: the calls made to it, the HTTP requests
\* these put on the wire, the redirects they set out to follow, the requests
\* sent again after a connection broke, and the method and the connection
\* of the request in hand.
http == <<ncall, nreq, hops, resent, method, conn>>

(***************************************************************************)
(* Bounds of the model.                                                    *)
(***************************************************************************)
\* Calls each caller makes on the shared Client, one after the other.
MaxCalls == 2

\* Redirects the server answers within one call of the sequential
\* specification.
MaxHops == 1

\* Requests of one call that are lost and sent again, in the wire
\* specification.
MaxResends == 1

(***************************************************************************)
(* Program constants.                                                      *)
(***************************************************************************)
defaultBaseURL == "https://api.hipchat.com/v1"

baseURL == "https://api.hipchat.com/v1"

ResponseStatusSent == "sent"

\* The requests http.DefaultClient makes for one call before it stops
\* following redirects.
RedirectLimit == 10

StatusOK == 200

\* A caller-supplied BaseURL of an internal server.
CustomBaseURL == "http://chat.internal/v1"

(***************************************************************************)
(* Go values.  A string variable is a two-word header (data pointer,       *)
(* length); the pointer is modelled by the text it points at, NilPtr by    *)
(* the absent text.                                                        *)
(***************************************************************************)
NilPtr == "<nil>"

StringHeader(s) == [ptr |-> IF s = "" THEN NilPtr ELSE s, len |-> Len(s)]

\* The error values the operations return; uniform records.
NoError == [kind |-> "nil", Code |-> 0, Type |-> "", Message |-> ""]

ErrorsNew(m) == [kind |-> "errorString", Code |-> 0, Type |-> "", Message |-> m]

SyntaxError == [kind |-> "json.SyntaxError", Code |-> 0, Type |-> "",
                Message |-> "json: invalid input"]

UnmarshalTypeError == [kind |-> "json.UnmarshalTypeError", Code |-> 0, Type |-> "",
                       Message |-> "json: cannot unmarshal value into Go value"]

TransportError == [kind |-> "url.Error", Code |-> 0, Type |-> "",
                   Message |-> "transport: request failed"]

ReadError == [kind |-> "io.Error", Code |-> 0, Type |-> "",
              Message |-> "read: body truncated"]

\* HipchatError as an error value (ptr FALSE) or *HipchatError (ptr TRUE);
\* Error() returns e.Message.
HipchatErrorValue(e, ptr) ==
    [kind |-> IF ptr THEN "*HipchatError" ELSE "HipchatError",
     Code |-> e["Code"], Type |-> e["Type"], Message |-> e["Message"]]

\* A slice: nil, or its elements; spare holds what its array still holds
\* past its length (elements of a longer slice it was cut from).
NilSlice == [isnil |-> TRUE, elems |-> <<>>, spare |-> <<>>]

(***************************************************************************)
(* JSON values.                                                            *)
(***************************************************************************)
JStr(s) == [t |-> "string", s |-> s]

JNum(n) == [t |-> "number", n |-> n, int |-> TRUE]

JFrac(n) == [t |-> "number", n |-> n, int |-> FALSE]

JBool(b) == [t |-> "bool", b |-> b]

JNull == [t |-> "null"]

JArr(a) == [t |-> "array", a |-> a]

\* An object is its members in the order of the text: <<key, value>> pairs,
\* a key being a sequence of characters (a character outside ASCII is
\* written by its code point, "U+017F").
JObj(o) == [t |-> "object", o |-> o]

\* A text that is not JSON (json's checkValid fails on it).
JInvalid == [t |-> "invalid"]

(***************************************************************************)
(* Go types as encoding/json sees them.                                    *)
(***************************************************************************)
TString == [k |-> "string"]

TInt == [k |-> "int"]

TBool == [k |-> "bool"]

TPtr(e) == [k |-> "ptr", elem |-> e]

TSlice(e) == [k |-> "slice", elem |-> e]

\* fields: a sequence of [name, key, ty]; key is the json tag, or the
\* field's name when it has none, as a sequence of characters.
TStruct(fields) == [k |-> "struct", fields |-> fields]

Field(name, key, ty) == [name |-> name, key |-> key, ty |-> ty]

THipchatError ==
    TStruct(<<Field("Code", <<"C", "o", "d", "e">>, TInt),
              Field("Type", <<"T", "y", "p", "e">>, TString),
              Field("Message", <<"M", "e", "s", "s", "a", "g", "e">>, TString)>>)

TAuthResponse ==
    TStruct(<<Field("Success", <<"S", "u", "c", "c", "e", "s", "s">>, TPtr(THipchatError)),
              Field("Error", <<"E", "r", "r", "o", "r">>, TPtr(THipchatError))>>)

TErrorResponse == TStruct(<<Field("Error", <<"E", "r", "r", "o", "r">>, THipchatError)>>)

TStatusResponse == TStruct(<<Field("Status", <<"S", "t", "a", "t", "u", "s">>, TString)>>)

TRoom ==
    TStruct(<<Field("RoomId", <<"r", "o", "o", "m", "_", "i", "d">>, TInt),
              Field("Name", <<"N", "a", "m", "e">>, TString),
              Field("Topic", <<"T", "o", "p", "i", "c">>, TString),
              Field("LastActive", <<"l", "a", "s", "t", "_", "a", "c", "t", "i", "v", "e">>, TInt),
              Field("Created", <<"C", "r", "e", "a", "t", "e", "d">>, TInt),
              Field("Archived", <<"i", "s", "_", "a", "r", "c", "h", "i", "v", "e", "d">>, TBool),
              Field("Private", <<"i", "s", "_", "p", "r", "i", "v", "a", "t", "e">>, TBool),
              Field("OwnerUserId", <<"o", "w", "n", "e", "r", "_", "u", "s", "e", "r", "_", "i", "d">>, TInt),
              Field("XMPPJabberId", <<"x", "m", "p", "p", "_", "j", "i", "d">>, TString)>>)

TRoomsResponse == TStruct(<<Field("Rooms", <<"R", "o", "o", "m", "s">>, TSlice(TRoom))>>)

\* The Message type is declared in a file that is not part of the sources
\* at hand; the history entries are decoded as date/message texts.
TMessage ==
    TStruct(<<Field("Date", <<"D", "a", "t", "e">>, TString),
              Field("Message", <<"M", "e", "s", "s", "a", "g", "e">>, TString)>>)

TMessagesResponse ==
    TStruct(<<Field("Messages", <<"M", "e", "s", "s", "a", "g", "e", "s">>, TSlice(TMessage))>>)

(***************************************************************************)
(* encoding/json: Unmarshal into a Go value of a given type.               *)
(***************************************************************************)
\* The case folding json matches member names by (a key matches a field
\* exactly, or else under this folding): upper-case letters fold to lower
\* case, and so do the long s (U+017F) and the Kelvin sign (U+212A).
LowerChar(c) ==
    CASE c = "A" -> "a"
      [] c = "B" -> "b"
      [] c = "C" -> "c"
      [] c = "D" -> "d"
      [] c = "E" -> "e"
      [] c = "F" -> "f"
      [] c = "G" -> "g"
      [] c = "H" -> "h"
      [] c = "I" -> "i"
      [] c = "J" -> "j"
      [] c = "K" -> "k"
      [] c = "L" -> "l"
      [] c = "M" -> "m"
      [] c = "N" -> "n"
      [] c = "O" -> "o"
      [] c = "P" -> "p"
      [] c = "Q" -> "q"
      [] c = "R" -> "r"
      [] c = "S" -> "s"
      [] c = "T" -> "t"
      [] c = "U" -> "u"
      [] c = "V" -> "v"
      [] c = "W" -> "w"
      [] c = "X" -> "x"
      [] c = "Y" -> "y"
      [] c = "Z" -> "z"
      [] c = "U+017F" -> "s"
      [] c = "U+212A" -> "k"
      [] OTHER -> c

FoldKey(k) == [i \in DOMAIN k |-> LowerChar(k[i])]

\* The field a member named key is stored in: 0 when the type has none.
FieldIndex(fields, key) ==
    LET exact == {i \in DOMAIN fields : fields[i].key = key}
        fold == {i \in DOMAIN fields : FoldKey(fields[i].key) = FoldKey(key)}
        Min(S) == CHOOSE i \in S : \A j \in S : i <= j
    IN IF exact # {} THEN Min(exact) ELSE IF fold # {} THEN Min(fold) ELSE 0

FieldNamed(fields, name) == fields[CHOOSE i \in DOMAIN fields : fields[i].name = name]

RECURSIVE Zero(_)
\* The zero value of a type.
Zero(ty) ==
    CASE ty.k = "string" -> ""
      [] ty.k = "int" -> 0
      [] ty.k = "bool" -> FALSE
      [] ty.k = "ptr" -> <<>>
      [] ty.k = "slice" -> NilSlice
      [] ty.k = "struct" ->
           [n \in {ty.fields[i].name : i \in DOMAIN ty.fields} |->
               Zero(FieldNamed(ty.fields, n).ty)]

RECURSIVE Decode(_, _, _)
RECURSIVE DecodeMembers(_, _, _, _, _)
RECURSIVE DecodeElems(_, _, _, _, _, _)

\* The members of an object, in order, into the struct cur; a type mismatch
\* is remembered (the first one) and decoding goes on.
DecodeMembers(ty, members, i, cur, err) ==
    IF i > Len(members) THEN [err |-> err, val |-> cur]
    ELSE LET idx == FieldIndex(ty.fields, members[i][1])
         IN IF idx = 0 THEN DecodeMembers(ty, members, i + 1, cur, err)
            ELSE LET f == ty.fields[idx]
                     r == Decode(f.ty, members[i][2], cur[f.name])
                 IN DecodeMembers(ty, members, i + 1,
                                  [cur EXCEPT ![f.name] = r.val],
                                  IF err = NoError THEN r.err ELSE err)

\* The elements of an array into a slice whose array holds back: element i
\* is decoded into what the array holds at i (a fresh zero value past it);
\* the slice is then cut to the elements decoded, and an empty array gives
\* a fresh empty slice.
DecodeElems(ety, a, i, back, acc, err) ==
    IF i > Len(a)
    THEN [err |-> err,
          val |-> IF Len(a) = 0 THEN [isnil |-> FALSE, elems |-> <<>>, spare |-> <<>>]
                  ELSE [isnil |-> FALSE, elems |-> acc,
                        spare |-> SubSeq(back, Len(a) + 1, Len(back))]]
    ELSE LET r == Decode(ety, a[i], IF i <= Len(back) THEN back[i] ELSE Zero(ety))
         IN DecodeElems(ety, a, i + 1, back, Append(acc, r.val),
                        IF err = NoError THEN r.err ELSE err)

\* One JSON value j into a Go value of type ty that now holds cur.
Decode(ty, j, cur) ==
    LET ok(v) == [err |-> NoError, val |-> v]
        mismatch == [err |-> UnmarshalTypeError, val |-> cur]
    IN CASE j.t = "null" ->
              IF ty.k = "ptr" THEN ok(<<>>)
              ELSE IF ty.k = "slice" THEN ok(NilSlice) ELSE ok(cur)
         [] j.t # "null" /\ ty.k = "ptr" ->
              LET r == Decode(ty.elem, j, IF Len(cur) = 0 THEN Zero(ty.elem) ELSE cur[1])
              IN [err |-> r.err, val |-> <<r.val>>]
         [] j.t # "null" /\ ty.k = "string" ->
              IF j.t = "string" THEN ok(j.s) ELSE mismatch
         [] j.t # "null" /\ ty.k = "int" ->
              IF j.t = "number" /\ j.int THEN ok(j.n) ELSE mismatch
         [] j.t # "null" /\ ty.k = "bool" ->
              IF j.t = "bool" THEN ok(j.b) ELSE mismatch
         [] j.t # "null" /\ ty.k = "slice" ->
              IF j.t = "array"
              THEN DecodeElems(ty.elem, j.a, 1, cur.elems \o cur.spare, <<>>, NoError)
              ELSE mismatch
         [] j.t # "null" /\ ty.k = "struct" ->
              IF j.t = "object" THEN DecodeMembers(ty, j.o, 1, cur, NoError)
              ELSE mismatch

\* json.Unmarshal(body, &v) with v a fresh value of type ty: the error and
\* what v holds afterwards.
Unmarshal(body, ty) ==
    IF body.t = "invalid" THEN [err |-> SyntaxError, val |-> Zero(ty)]
    ELSE Decode(ty, body, Zero(ty))

(***************************************************************************)
(* getError and the request builders.                                      *)
(***************************************************************************)
\* getError dropping the failure of Unmarshal.
getError_IgnoreParseFailure(body) ==
    HipchatErrorValue(Unmarshal(body, TErrorResponse).val["Error"], FALSE)

\* getError(body): the body's error field as a HipchatError value, or the
\* failure of Unmarshal.
getError(body) ==
    LET r == Unmarshal(body, TErrorResponse)
    IN IF r.err # NoError THEN r.err
       ELSE HipchatErrorValue(r.val["Error"], FALSE)

ValidationError == ErrorsNew("The RoomId, From, and Message fields are all required.")

\* url.Values.Add(key, value)
ValuesAdd(v, key, value) ==
    IF key \in DOMAIN v THEN [v EXCEPT ![key] = Append(@, value)]
    ELSE [k \in DOMAIN v \cup {key} |-> IF k = key THEN <<value>> ELSE v[k]]

\* No payload (a nil url.Values).
NilValues == [k \in {} |-> <<>>]

\* urlValuesFromMessageRequest without the check of From.
urlValuesFromMessageRequest_NoFromCheck(r) ==
    IF Len(r.RoomId) = 0 \/ Len(r.Message) = 0
    THEN [payload |-> NilValues, err |-> ValidationError]
    ELSE LET p0 == [k \in {"room_id", "from", "message"} |->
                       CASE k = "room_id" -> <<r.RoomId>>
                         [] k = "from" -> <<r.From>>
                         [] k = "message" -> <<r.Message>>]
             p1 == IF r.Notify = TRUE THEN ValuesAdd(p0, "notify", "1") ELSE p0
             p2 == IF Len(r.Color) > 0 THEN ValuesAdd(p1, "color", r.Color) ELSE p1
             p3 == IF Len(r.MessageFormat) > 0
                   THEN ValuesAdd(p2, "message_format", r.MessageFormat) ELSE p2
         IN [payload |-> p3, err |-> NoError]

\* urlValuesFromMessageRequest adding color whether or not Color is set.
urlValuesFromMessageRequest_AlwaysColor(r) ==
    IF Len(r.RoomId) = 0 \/ Len(r.From) = 0 \/ Len(r.Message) = 0
    THEN [payload |-> NilValues, err |-> ValidationError]
    ELSE LET p0 == [k \in {"room_id", "from", "message"} |->
                       CASE k = "room_id" -> <<r.RoomId>>
                         [] k = "from" -> <<r.From>>
                         [] k = "message" -> <<r.Message>>]
             p1 == IF r.Notify = TRUE THEN ValuesAdd(p0, "notify", "1") ELSE p0
             p2 == ValuesAdd(p1, "color", r.Color)
             p3 == IF Len(r.MessageFormat) > 0
                   THEN ValuesAdd(p2, "message_format", r.MessageFormat) ELSE p2
         IN [payload |-> p3, err |-> NoError]

\* urlValuesFromMessageRequest with no validation at all.
urlValuesFromMessageRequest_NoValidation(r) ==
    LET p0 == [k \in {"room_id", "from", "message"} |->
                  CASE k = "room_id" -> <<r.RoomId>>
                    [] k = "from" -> <<r.From>>
                    [] k = "message" -> <<r.Message>>]
        p1 == IF r.Notify = TRUE THEN ValuesAdd(p0, "notify", "1") ELSE p0
        p2 == IF Len(r.Color) > 0 THEN ValuesAdd(p1, "color", r.Color) ELSE p1
        p3 == IF Len(r.MessageFormat) > 0
              THEN ValuesAdd(p2, "message_format", r.MessageFormat) ELSE p2
    IN [payload |-> p3, err |-> NoError]

urlValuesFromMessageRequest(r) ==
    IF Len(r.RoomId) = 0 \/ Len(r.From) = 0 \/ Len(r.Message) = 0
    THEN [payload |-> NilValues, err |-> ValidationError]
    ELSE LET p0 == [k \in {"room_id", "from", "message"} |->
                       CASE k = "room_id" -> <<r.RoomId>>
                         [] k = "from" -> <<r.From>>
                         [] k = "message" -> <<r.Message>>]
             p1 == IF r.Notify = TRUE THEN ValuesAdd(p0, "notify", "1") ELSE p0
             p2 == IF Len(r.Color) > 0 THEN ValuesAdd(p1, "color", r.Color) ELSE p1
             p3 == IF Len(r.MessageFormat) > 0
                   THEN ValuesAdd(p2, "message_format", r.MessageFormat) ELSE p2
         IN [payload |-> p3, err |-> NoError]

\* The builder of the earlier revision (its MessageRequest has no AuthTest).
urlValuesFromRequest(r) ==
    IF Len(r.RoomId) = 0 \/ Len(r.From) = 0 \/ Len(r.Message) = 0
    THEN [payload |-> NilValues, err |-> ValidationError]
    ELSE LET p0 == [k \in {"room_id", "from", "message"} |->
                       CASE k = "room_id" -> <<r.RoomId>>
                         [] k = "from" -> <<r.From>>
                         [] k = "message" -> <<r.Message>>]
             p1 == IF r.Notify = TRUE THEN ValuesAdd(p0, "notify", "1") ELSE p0
             p2 == IF Len(r.Color) > 0 THEN ValuesAdd(p1, "color", r.Color) ELSE p1
             p3 == IF Len(r.MessageFormat) > 0
                   THEN ValuesAdd(p2, "message_format", r.MessageFormat) ELSE p2
         IN [payload |-> p3, err |-> NoError]

(***************************************************************************)
(* net/url: QueryEscape over texts given as sequences of characters.       *)
(***************************************************************************)
Alnum ==
    {"a", "b", "c", "d", "e", "f", "g", "h", "i", "j", "k", "l", "m", "n", "o",
     "p", "q", "r", "s", "t", "u", "v", "w", "x", "y", "z",
     "A", "B", "C", "D", "E", "F", "G", "H", "I", "J", "K", "L", "M", "N", "O",
     "P", "Q", "R", "S", "T", "U", "V", "W", "X", "Y", "Z",
     "0", "1", "2", "3", "4", "5", "6", "7", "8", "9"}

\* The escape of one character: unreserved characters stay, a space becomes
\* "+", anything else its %XX.
EscapeChar(c) ==
    CASE c \in Alnum \cup {"-", "_", ".", "~"} -> <<c>>
      [] c = " " -> <<"+">>
      [] c = "&" -> <<"%", "2", "6">>
      [] c = "=" -> <<"%", "3", "D">>
      [] c = "/" -> <<"%", "2", "F">>
      [] c = "+" -> <<"%", "2", "B">>
      [] c = "%" -> <<"%", "2", "5">>
      [] c = "?" -> <<"%", "3", "F">>
      [] c = "#" -> <<"%", "2", "3">>
      [] c = ":" -> <<"%", "3", "A">>
      [] c = "@" -> <<"%", "4", "0">>
      [] c = "," -> <<"%", "2", "C">>
      [] c = ";" -> <<"%", "3", "B">>
      [] c = "$" -> <<"%", "2", "4">>

RECURSIVE QueryEscape(_)
QueryEscape(s) ==
    IF s = <<>> THEN <<>> ELSE EscapeChar(Head(s)) \o QueryEscape(Tail(s))

(***************************************************************************)
(* The Client and the request URLs.                                        *)
(***************************************************************************)
\* NewClient leaving BaseURL unset.
NewClient_NoBaseURL(authToken) ==
    [AuthToken |-> authToken, BaseURL |-> StringHeader("")]

\* NewClient(authToken)
NewClient(authToken) ==
    [AuthToken |-> authToken, BaseURL |-> StringHeader(defaultBaseURL)]

\* A Client literal, Client{AuthToken: t, BaseURL: b} (b may be "").
ClientLiteral(authToken, b) == [AuthToken |-> authToken, BaseURL |-> StringHeader(b)]

\* The default filled in without the check.
BaseURLIsEmpty_Always(len) == TRUE

\* len(c.BaseURL) == 0, from the length word.
BaseURLIsEmpty(len) == len = 0

\* The store of an empty text in place of the default.
StoreDefaultWord_Empty(hdr, w) == [hdr EXCEPT ![w] = StringHeader("")[w]]

\* One word of the store c.BaseURL = defaultBaseURL.
StoreDefaultWord(hdr, w) == [hdr EXCEPT ![w] = StringHeader(defaultBaseURL)[w]]

\* A header whose words were loaded from two different stores may hold a
\* length with no data: using it reads through a nil pointer.
HeaderFaults(hdr) == hdr.len # 0 /\ hdr.ptr = NilPtr

\* The text of a loaded header.
HeaderText(hdr) == IF hdr.len = 0 THEN "" ELSE hdr.ptr

NoURI == [base |-> "", path |-> "", query |-> <<>>]

\* fmt.Sprintf("%s/rooms/message?auth_token=%s", c.BaseURL, url.QueryEscape(c.AuthToken)),
\* then uri += "&auth_test=true" under req.AuthTest.
MessageURI(base, token, authTest) ==
    LET u == [base |-> base, path |-> "/rooms/message",
              query |-> <<<<"auth_token", QueryEscape(token)>>>>]
    IN IF authTest
       THEN [u EXCEPT !.query = Append(@, <<"auth_test", <<"t", "r", "u", "e">>>>)]
       ELSE u

HistoryURI(base, token, id, date, tz) ==
    [base |-> base, path |-> "/rooms/history",
     query |-> <<<<"auth_token", QueryEscape(token)>>, <<"room_id", QueryEscape(id)>>,
                 <<"date", QueryEscape(date)>>, <<"timezone", QueryEscape(tz)>>>>]

ListURI(base, token) ==
    [base |-> base, path |-> "/rooms/list",
     query |-> <<<<"auth_token", QueryEscape(token)>>>>]

\* The earlier PostMessage: the package's baseURL and the token as it is.
MessageURI0(token) ==
    [base |-> baseURL, path |-> "/rooms/message", query |-> <<<<"auth_token", token>>>>]

\* The earlier RoomList.
ListURI0(token) ==
    [base |-> baseURL, path |-> "/rooms/list",
     query |-> <<<<"auth_token", QueryEscape(token)>>>>]

(***************************************************************************)
(* What the operations return for a response.  A response is a transport   *)
(* failure (no response at all), or a status code with either a failed     *)
(* read of the body or the body read.                                      *)
(***************************************************************************)
\* PostMessage accepting any status that decodes.
PostMessageOutcome_AnyStatus(authTest, rsp, body) ==
    IF rsp.kind = "transportError" THEN TransportError
    ELSE IF rsp.kind = "readError" THEN ReadError
    ELSE IF authTest
         THEN LET r == Unmarshal(body, TAuthResponse)
              IN IF r.err # NoError THEN r.err
                 ELSE IF Len(r.val["Error"]) # 0
                      THEN HipchatErrorValue(r.val["Error"][1], TRUE)
                      ELSE NoError
         ELSE LET r == Unmarshal(body, TStatusResponse)
              IN IF r.err # NoError THEN r.err ELSE NoError

\* PostMessage asking for status "sent" in the auth-test mode too.
PostMessageOutcome_AuthNeedsSent(authTest, rsp, body) ==
    IF rsp.kind = "transportError" THEN TransportError
    ELSE IF rsp.kind = "readError" THEN ReadError
    ELSE LET r == Unmarshal(body, TStatusResponse)
         IN IF r.err # NoError THEN r.err
            ELSE IF r.val["Status"] # ResponseStatusSent THEN getError(body)
                 ELSE NoError

\* PostMessage after http.PostForm: the error it returns.
PostMessageOutcome(authTest, rsp, body) ==
    IF rsp.kind = "transportError" THEN TransportError
    ELSE IF rsp.kind = "readError" THEN ReadError
    ELSE IF authTest
         THEN LET r == Unmarshal(body, TAuthResponse)
              IN IF r.err # NoError THEN r.err
                 ELSE IF Len(r.val["Error"]) # 0
                      THEN HipchatErrorValue(r.val["Error"][1], TRUE)
                      ELSE NoError
         ELSE LET r == Unmarshal(body, TStatusResponse)
              IN IF r.err # NoError THEN r.err
                 ELSE IF r.val["Status"] # ResponseStatusSent THEN getError(body)
                      ELSE NoError

\* RoomHistory after http.Get: the messages and the error.
RoomHistoryOutcome(rsp, body) ==
    IF rsp.kind = "transportError" THEN [list |-> NilSlice, err |-> TransportError]
    ELSE IF rsp.kind = "readError" THEN [list |-> NilSlice, err |-> ReadError]
    ELSE IF rsp.code # StatusOK THEN [list |-> NilSlice, err |-> getError(body)]
    ELSE LET r == Unmarshal(body, TMessagesResponse)
         IN IF r.err # NoError THEN [list |-> NilSlice, err |-> r.err]
            ELSE [list |-> r.val["Messages"], err |-> NoError]

\* RoomList decoding the rooms without a look at the status code.
RoomListOutcome_NoStatusCheck(rsp, body) ==
    IF rsp.kind = "transportError" THEN [list |-> NilSlice, err |-> TransportError]
    ELSE IF rsp.kind = "readError" THEN [list |-> NilSlice, err |-> ReadError]
    ELSE LET r == Unmarshal(body, TRoomsResponse)
         IN IF r.err # NoError THEN [list |-> NilSlice, err |-> r.err]
            ELSE [list |-> r.val["Rooms"], err |-> NoError]

\* RoomList after http.Get: the rooms and the error.
RoomListOutcome(rsp, body) ==
    IF rsp.kind = "transportError" THEN [list |-> NilSlice, err |-> TransportError]
    ELSE IF rsp.kind = "readError" THEN [list |-> NilSlice, err |-> ReadError]
    ELSE IF rsp.code # StatusOK THEN [list |-> NilSlice, err |-> getError(body)]
    ELSE LET r == Unmarshal(body, TRoomsResponse)
         IN IF r.err # NoError THEN [list |-> NilSlice, err |-> r.err]
            ELSE [list |-> r.val["Rooms"], err |-> NoError]

\* The earlier PostMessage (MessageResponse{Status}).
PostMessageOutcome0(rsp, body) ==
    IF rsp.kind = "transportError" THEN TransportError
    ELSE IF rsp.kind = "readError" THEN ReadError
    ELSE LET r == Unmarshal(body, TStatusResponse)
         IN IF r.err # NoError THEN r.err
            ELSE IF r.val["Status"] # ResponseStatusSent
                 THEN ErrorsNew("PostMessage: response 'status' field was not 'sent'.")
                 ELSE NoError

\* The earlier RoomList (errors.New of the decoded message).
RoomListOutcome0(rsp, body) ==
    IF rsp.kind = "transportError" THEN [list |-> NilSlice, err |-> TransportError]
    ELSE IF rsp.kind = "readError" THEN [list |-> NilSlice, err |-> ReadError]
    ELSE IF rsp.code # 200
         THEN LET e == Unmarshal(body, TErrorResponse)
              IN IF e.err # NoError THEN [list |-> NilSlice, err |-> e.err]
                 ELSE [list |-> NilSlice, err |-> ErrorsNew(e.val["Error"]["Message"])]
    ELSE LET r == Unmarshal(body, TRoomsResponse)
         IN IF r.err # NoError THEN [list |-> NilSlice, err |-> r.err]
            ELSE [list |-> r.val["Rooms"], err |-> NoError]

(***************************************************************************)
(* The inputs: callers, requests, responses.                               *)
(***************************************************************************)
Callers == {"c1", "c2"}

\* The caller of the sequential specification.
Solo == {"c1"}

Tokens == {<<"t", "0", "k">>, <<"a", "&", "b", " ", "c">>}

InitialBaseURLs == {"", defaultBaseURL, CustomBaseURL}

NoRequest ==
    [RoomId |-> "", From |-> "", Message |-> "", MessageFormat |-> "",
     Notify |-> FALSE, Color |-> "", AuthTest |-> FALSE]

Requests ==
    [RoomId : {"", "42"}, From : {"", "GLaDOS"}, Message : {"", "hi"},
     MessageFormat : {"", "text"}, Notify : BOOLEAN, Color : {"", "purple"},
     AuthTest : BOOLEAN]

NoArgs == [id |-> <<>>, date |-> <<>>, tz |-> <<>>]

HistoryArgs ==
    {[id |-> <<"4", "2">>, date |-> <<"r", "e", "c", "e", "n", "t">>,
      tz |-> <<"U", "T", "C">>],
     [id |-> <<"a", " ", "b">>, date |-> <<"2", "0", "1", "3", "/", "1">>,
      tz |-> <<"A", "/", "B">>]}

\* The invocations of the sequential specification.
Invocations ==
    {[op |-> "PostMessage", req |-> r, args |-> NoArgs] : r \in Requests}
    \cup {[op |-> "PostMessage0", req |-> r, args |-> NoArgs] :
             r \in {q \in Requests : ~q.AuthTest}}
    \cup {[op |-> "RoomHistory", req |-> NoRequest, args |-> a] : a \in HistoryArgs}
    \cup {[op |-> o, req |-> NoRequest, args |-> NoArgs] : o \in {"RoomList", "RoomList0"}}

\* The invocations of the concurrent and the wire specifications.
InvocationsConc ==
    {[op |-> "PostMessage", req |-> r, args |-> NoArgs] :
        r \in {q \in Requests : /\ q.RoomId = "42" /\ q.Message = "hi"
                                 /\ q.MessageFormat = "" /\ q.Color = ""
                                 /\ ~q.Notify /\ ~q.AuthTest}}
    \cup {[op |-> "RoomHistory", req |-> NoRequest, args |-> a] :
             a \in {h \in HistoryArgs : h.tz = <<"U", "T", "C">>}}
    \cup {[op |-> o, req |-> NoRequest, args |-> NoArgs] : o \in {"RoomList", "RoomList0"}}
    \cup {[op |-> "PostMessage0", req |-> [NoRequest EXCEPT !.RoomId = "42"],
           args |-> NoArgs]}

\* The member names of the wire format.
k_status == <<"s", "t", "a", "t", "u", "s">>

k_error == <<"e", "r", "r", "o", "r">>

k_success == <<"s", "u", "c", "c", "e", "s", "s">>

k_code == <<"c", "o", "d", "e">>

k_type == <<"t", "y", "p", "e">>

k_message == <<"m", "e", "s", "s", "a", "g", "e">>

k_rooms == <<"r", "o", "o", "m", "s">>

k_messages == <<"m", "e", "s", "s", "a", "g", "e", "s">>

k_room_id == <<"r", "o", "o", "m", "_", "i", "d">>

k_name == <<"n", "a", "m", "e">>

k_topic == <<"t", "o", "p", "i", "c">>

k_created == <<"c", "r", "e", "a", "t", "e", "d">>

k_is_archived == <<"i", "s", "_", "a", "r", "c", "h", "i", "v", "e", "d">>

k_date == <<"d", "a", "t", "e">>

ErrBadToken ==
    JObj(<<<<k_code, JNum(401)>>, <<k_type, JStr("Unauthorized")>>,
           <<k_message, JStr("bad token")>>>>)

ErrX == JObj(<<<<k_code, JNum(1)>>, <<k_message, JStr("x")>>>>)

Lobby ==
    JObj(<<<<k_room_id, JNum(1)>>, <<k_name, JStr("Lobby")>>,
           <<k_is_archived, JBool(FALSE)>>>>)

Den == JObj(<<<<k_room_id, JNum(2)>>, <<k_name, JStr("Den")>>>>)

Hello == JObj(<<<<k_date, JStr("2013-01-01")>>, <<k_message, JStr("hello")>>>>)

\* The bodies a server may answer with.
Bodies ==
    << JInvalid,
       JNull,
       JArr(<<>>),
       JObj(<<>>),
       JObj(<<<<k_status, JStr("sent")>>>>),
       JObj(<<<<k_status, JStr("queued")>>, <<k_error, ErrX>>>>),
       JObj(<<<<k_status, JStr("queued")>>>>),
       JObj(<<<<k_status, JStr("queued")>>, <<k_error, JStr("oops")>>>>),
       JObj(<<<<k_status, JNum(5)>>>>),
       JObj(<<<<k_error, ErrBadToken>>>>),
       JObj(<<<<k_error, JNull>>>>),
       JObj(<<<<k_error, JObj(<<>>)>>>>),
       JObj(<<<<k_success, JObj(<<<<k_code, JNum(202)>>, <<k_type, JStr("Accepted")>>,
                                  <<k_message, JStr("ok")>>>>)>>>>),
       JObj(<<<<k_status, JStr("sent")>>, <<k_error, ErrX>>>>),
       JObj(<<<<k_rooms, JArr(<<Lobby>>)>>>>),
       JObj(<<<<k_rooms, JArr(<<>>)>>>>),
       JObj(<<<<k_rooms, JStr("none")>>>>),
       JObj(<<<<k_messages, JArr(<<Hello>>)>>>>),
       JObj(<<<<k_error, JObj(<<<<k_message, JNum(5)>>>>)>>>>),
       JObj(<<<<k_rooms, JArr(<<Lobby>>)>>, <<k_error, ErrBadToken>>>>),
       JObj(<<<<<<"S", "t", "a", "t", "u", "s">>, JStr("sent")>>>>),
       JObj(<<<<k_success, JStr("yes")>>>>),
       JObj(<<<<k_messages, JArr(<<Hello>>)>>, <<k_error, ErrBadToken>>>>),
       JObj(<<<<k_status, JStr("sent")>>, <<k_status, JStr("queued")>>>>),
       JObj(<<<<k_rooms, JArr(<<JObj(<<<<k_room_id, JStr("one")>>>>)>>)>>>>),
       JObj(<<<<k_error, JObj(<<<<k_code, JFrac(1)>>, <<k_message, JStr("x")>>>>)>>>>),
       \* member names in other spellings
       JObj(<<<<<<"s", "T", "A", "T", "U", "S">>, JStr("sent")>>>>),
       JObj(<<<<<<"U+017F", "t", "a", "t", "u", "s">>, JStr("sent")>>>>),
       JObj(<<<<<<"S", "t", "a", "t", "u", "S">>, JStr("queued")>>,
              <<<<"e", "R", "R", "O", "R">>,
                JObj(<<<<<<"c", "O", "D", "E">>, JNum(401)>>,
                       <<<<"T", "Y", "P", "E">>, JStr("Unauthorized")>>,
                       <<<<"M", "e", "s", "s", "a", "g", "e">>, JStr("bad token")>>>>)>>>>),
       JObj(<<<<<<"R", "O", "O", "M", "S">>,
                JArr(<<JObj(<<<<<<"R", "O", "O", "M", "_", "I", "D">>, JNum(1)>>,
                              <<<<"N", "A", "M", "E">>, JStr("Lobby")>>,
                              <<<<"I", "s", "_", "A", "r", "c", "h", "i", "v", "e", "d">>,
                                JBool(TRUE)>>>>)>>)>>>>),
       JObj(<<<<<<"s", "t", "a", "t", "u", "s", " ">>, JStr("sent")>>>>),
       \* members that repeat
       JObj(<<<<k_rooms, JArr(<<Lobby>>)>>,
              <<k_rooms, JArr(<<JObj(<<<<k_topic, JStr("t")>>>>)>>)>>>>),
       JObj(<<<<k_rooms, JArr(<<Lobby, Den>>)>>,
              <<k_rooms, JArr(<<JNull>>)>>,
              <<k_rooms, JArr(<<JObj(<<<<k_topic, JStr("t")>>>>),
                                JObj(<<<<k_created, JNum(5)>>>>)>>)>>>>),
       JObj(<<<<k_messages, JArr(<<Hello>>)>>, <<k_messages, JNull>>>>),
       JObj(<<<<k_error, ErrX>>, <<k_error, JObj(<<<<k_type, JStr("T")>>>>)>>>>),
       JObj(<<<<k_error, ErrX>>, <<k_error, JNull>>>>),
       JObj(<<<<k_status, JStr("sent")>>, <<k_status, JNull>>>>),
       JObj(<<<<k_status, JNum(5)>>, <<k_status, JStr("sent")>>>>) >>

\* 302 is a redirect status that reaches the caller (it names no Location).
StatusCodes == {200, 201, 302, 401}

NoResponse == [kind |-> "none", code |-> 0, body |-> 0]

Responses ==
    {[kind |-> "transportError", code |-> 0, body |-> 0]}
    \cup {[kind |-> "readError", code |-> c, body |-> 0] : c \in StatusCodes}
    \cup {[kind |-> "body", code |-> c, body |-> b] : c \in StatusCodes, b \in DOMAIN Bodies}

\* The responses of the concurrent specification.
ResponsesConc ==
    {r \in Responses : \/ r.kind = "transportError"
                       \/ r.kind = "body" /\ r.code = 200 /\ r.body \in {5, 15}
                       \/ r.kind = "body" /\ r.code = 401 /\ r.body = 10}

\* The responses of the wire specification: a transport failure, a body
\* that cannot be read, bodies that do not decode (no JSON; rooms of the
\* wrong type), an error response, and bodies that succeed.
ResponsesWire ==
    {r \in Responses : \/ r.kind = "transportError"
                       \/ r.kind = "readError" /\ r.code = 200
                       \/ r.kind = "body" /\ r.code = 200 /\ r.body \in {1, 5, 15, 17}
                       \/ r.kind = "body" /\ r.code = 401 /\ r.body = 10}

\* What the call to net/http returns of a response: the transport failure,
\* or the status, the body unread.
HeadOf(rsp) ==
    IF rsp.kind = "transportError" THEN rsp
    ELSE [kind |-> "headers", code |-> rsp.code, body |-> 0]

Heads == {HeadOf(rsp) : rsp \in Responses}

HeadsConc == {HeadOf(rsp) : rsp \in ResponsesConc}

HeadsWire == {HeadOf(rsp) : rsp \in ResponsesWire}

\* The body a response carries (none: the text that is not JSON).
BodyOf(rsp) == IF rsp.kind = "body" THEN Bodies[rsp.body] ELSE JInvalid

NoResult == [err |-> NoError, list |-> NilSlice]

NoHeader == [ptr |-> "?", len |-> -1]

(***************************************************************************)
(* The state machine.  client is the one Client the callers share, ctor    *)
(* records how it was constructed and the value construction gave it;      *)
(* every other variable holds, per caller, the locals of its call.         *)
(***************************************************************************)
Init ==
    /\ \E t \in Tokens :
          \/ /\ client = NewClient(t)
             /\ ctor = [by |-> "NewClient", client |-> NewClient(t)]
          \/ \E b \in InitialBaseURLs :
                /\ client = ClientLiteral(t, b)
                /\ ctor = [by |-> "literal", client |-> ClientLiteral(t, b)]
    /\ pc = [p \in Callers |-> "idle"]
    /\ op = [p \in Callers |-> "none"]
    /\ req = [p \in Callers |-> NoRequest]
    /\ args = [p \in Callers |-> NoArgs]
    /\ seen = [p \in Callers |-> "unset"]
    /\ stored = [p \in Callers |-> {}]
    /\ loaded = [p \in Callers |-> NoHeader]
    /\ uri = [p \in Callers |-> NoURI]
    /\ payload = [p \in Callers |-> NilValues]
    /\ ncall = [p \in Callers |-> 0]
    /\ nreq = [p \in Callers |-> 0]
    /\ hops = [p \in Callers |-> 0]
    /\ resent = [p \in Callers |-> 0]
    /\ method = [p \in Callers |-> "none"]
    /\ conn = [p \in Callers |-> "none"]
    /\ resp = [p \in Callers |-> NoResponse]
    /\ result = [p \in Callers |-> NoResult]
    /\ calls = [p \in Callers |-> 0]

\* A nil dereference in one goroutine ends the program.
Running == \A q \in Callers : pc[q] # "panicked"

UsesBaseURLField(o) == o \in {"PostMessage", "RoomHistory", "RoomList"}

\* A caller enters an operation.
Call(p, inv) ==
    /\ Running
    /\ pc[p] = "idle"
    /\ calls[p] < MaxCalls
    /\ op' = [op EXCEPT ![p] = inv.op]
    /\ req' = [req EXCEPT ![p] = inv.req]
    /\ args' = [args EXCEPT ![p] = inv.args]
    /\ pc' = [pc EXCEPT ![p] = IF UsesBaseURLField(inv.op) THEN "check" ELSE "prepare"]
    /\ UNCHANGED <<client, ctor, seen, stored, loaded, uri, payload, http, resp,
                   result, calls>>

\* if len(c.BaseURL) == 0
CheckBaseURL(p) ==
    /\ Running
    /\ pc[p] = "check"
    /\ seen' = [seen EXCEPT ![p] =
                   IF BaseURLIsEmpty(client.BaseURL.len) THEN "empty" ELSE "nonempty"]
    /\ pc' = [pc EXCEPT ![p] =
                 IF BaseURLIsEmpty(client.BaseURL.len) THEN "store" ELSE "load"]
    /\ UNCHANGED <<client, ctor, op, req, args, stored, loaded, uri, payload, http,
                   resp, result, calls>>

\* c.BaseURL = defaultBaseURL: two word stores with no synchronisation, in
\* either order.
StoreBaseURL(p, w) ==
    /\ Running
    /\ pc[p] = "store"
    /\ w \notin stored[p]
    /\ client' = [client EXCEPT !.BaseURL = StoreDefaultWord(@, w)]
    /\ stored' = [stored EXCEPT ![p] = @ \cup {w}]
    /\ pc' = [pc EXCEPT ![p] = IF stored[p] \cup {w} = {"ptr", "len"} THEN "load"
                               ELSE "store"]
    /\ UNCHANGED <<ctor, op, req, args, seen, loaded, uri, payload, http, resp,
                   result, calls>>

\* The loads of c.BaseURL for fmt.Sprintf: two word loads, in either order.
LoadBaseURL(p, w) ==
    /\ Running
    /\ pc[p] = "load"
    /\ loaded[p][w] = NoHeader[w]
    /\ loaded' = [loaded EXCEPT ![p][w] = client.BaseURL[w]]
    /\ pc' = [pc EXCEPT ![p] =
                 IF \A v \in {"ptr", "len"} \ {w} : loaded[p][v] # NoHeader[v]
                 THEN "prepare" ELSE "load"]
    /\ UNCHANGED <<client, ctor, op, req, args, seen, stored, uri, payload, http,
                   resp, result, calls>>

\* The URL of the call, from the header loaded (the package's baseURL in the
\* earlier revisions).
BuildURI(p) ==
    CASE op[p] = "PostMessage" ->
           MessageURI(HeaderText(loaded[p]), client.AuthToken, req[p].AuthTest)
      [] op[p] = "RoomHistory" ->
           HistoryURI(HeaderText(loaded[p]), client.AuthToken, args[p].id,
                      args[p].date, args[p].tz)
      [] op[p] = "RoomList" -> ListURI(HeaderText(loaded[p]), client.AuthToken)
      [] op[p] = "PostMessage0" -> MessageURI0(client.AuthToken)
      [] op[p] = "RoomList0" -> ListURI0(client.AuthToken)

\* The payload of the call and the error that ends it before any request.
BuildPayload(p) ==
    CASE op[p] = "PostMessage" -> urlValuesFromMessageRequest(req[p])
      [] op[p] = "PostMessage0" -> urlValuesFromRequest(req[p])
      [] OTHER -> [payload |-> NilValues, err |-> NoError]

\* The URL is formatted, and PostMessage builds its payload: a validation
\* error returns at once.
Prepare(p) ==
    /\ Running
    /\ pc[p] = "prepare"
    /\ IF UsesBaseURLField(op[p]) /\ HeaderFaults(loaded[p])
       THEN /\ pc' = [pc EXCEPT ![p] = "panicked"]
            /\ UNCHANGED <<uri, payload, result>>
       ELSE /\ uri' = [uri EXCEPT ![p] = BuildURI(p)]
            /\ payload' = [payload EXCEPT ![p] = BuildPayload(p).payload]
            /\ IF BuildPayload(p).err # NoError
               THEN /\ result' = [result EXCEPT ![p] =
                                     [err |-> BuildPayload(p).err, list |-> NilSlice]]
                    /\ pc' = [pc EXCEPT ![p] = "returned"]
               ELSE /\ pc' = [pc EXCEPT ![p] = "send"]
                    /\ UNCHANGED result
    /\ UNCHANGED <<client, ctor, op, req, args, seen, stored, loaded, http, resp,
                   calls>>

\* The method of the request an operation hands to net/http.
MethodOf(o) == IF o \in {"PostMessage", "PostMessage0"} THEN "POST" ELSE "GET"

\* The scheme of a base URL.
Scheme(base) == IF base = CustomBaseURL THEN "http" ELSE "https"

\* The connections http.DefaultTransport sends a request on: an HTTP/1.1
\* connection it has just made or one it kept alive, or an HTTP/2 one.
Conns == {"fresh", "reused", "h2"}

\* The redirects http.DefaultClient follows: 302 (as 301, 303) with a GET
\* and no body, 307 (as 308) with the method and the body as they were.
RedirectCodes == {302, 307}

\* http.PostForm(uri, payload) / http.Get(uri) is called: the one call the
\* operation makes to net/http.  Nothing is on the wire yet.
Send(p) ==
    /\ Running
    /\ pc[p] = "send"
    /\ ncall' = [ncall EXCEPT ![p] = @ + 1]
    /\ method' = [method EXCEPT ![p] = MethodOf(op[p])]
    /\ pc' = [pc EXCEPT ![p] = "dial"]
    /\ UNCHANGED <<client, ctor, op, req, args, seen, stored, loaded, uri, payload,
                   nreq, hops, resent, conn, resp, result, calls>>

\* Within the call, net/http puts an HTTP request on the wire, on the
\* connection c: the first one, the one that follows a redirect, or the
\* one sent again.  HTTP/2 is spoken over https only (the Location of a
\* redirect may name any scheme).
Transmit(p, c) ==
    /\ Running
    /\ pc[p] = "dial"
    /\ c = "h2" => Scheme(uri[p].base) = "https" \/ hops[p] > 0
    /\ nreq' = [nreq EXCEPT ![p] = @ + 1]
    /\ conn' = [conn EXCEPT ![p] = c]
    /\ pc' = [pc EXCEPT ![p] = "await"]
    /\ UNCHANGED <<client, ctor, op, req, args, seen, stored, loaded, uri, payload,
                   ncall, hops, resent, method, resp, result, calls>>

\* Within the call, the server answers a redirect (3xx with a Location):
\* http.DefaultClient follows it with another request, and gives up with
\* an error once it has made RedirectLimit requests of its own.
Redirect(p, code) ==
    /\ Running
    /\ pc[p] = "await"
    /\ conn' = [conn EXCEPT ![p] = "none"]
    /\ IF hops[p] + 1 < RedirectLimit
       THEN /\ pc' = [pc EXCEPT ![p] = "dial"]
            /\ hops' = [hops EXCEPT ![p] = @ + 1]
            /\ method' = [method EXCEPT ![p] = IF code = 302 THEN "GET" ELSE @]
            /\ UNCHANGED resp
       ELSE /\ pc' = [pc EXCEPT ![p] = "decode"]
            /\ method' = [method EXCEPT ![p] = "none"]
            /\ UNCHANGED hops
            /\ resp' = [resp EXCEPT ![p] =
                           [kind |-> "transportError", code |-> 0, body |-> 0]]
    /\ UNCHANGED <<client, ctor, op, req, args, seen, stored, loaded, uri, payload,
                   ncall, nreq, resent, result, calls>>

\* Within the call, the request in hand is lost and http.DefaultTransport
\* sends it again on another connection: a GET whose kept-alive HTTP/1.1
\* connection broke before the response began, or a request of either
\* method (the form body can be rewound) that an HTTP/2 server refused.
Resend(p) ==
    /\ Running
    /\ pc[p] = "await"
    /\ \/ conn[p] = "reused" /\ method[p] = "GET"
       \/ conn[p] = "h2"
    /\ resent' = [resent EXCEPT ![p] = @ + 1]
    /\ conn' = [conn EXCEPT ![p] = "none"]
    /\ pc' = [pc EXCEPT ![p] = "dial"]
    /\ UNCHANGED <<client, ctor, op, req, args, seen, stored, loaded, uri, payload,
                   ncall, nreq, hops, method, resp, result, calls>>

\* The call to net/http returns: a transport failure (before a request is
\* on the wire, when the connection cannot be made, or after), or a response
\* whose status and headers have arrived and whose body is yet to be read.
Receive(p, head) ==
    /\ Running
    /\ \/ pc[p] = "await"
       \/ pc[p] = "dial" /\ head.kind = "transportError"
    /\ resp' = [resp EXCEPT ![p] = head]
    /\ method' = [method EXCEPT ![p] = "none"]
    /\ conn' = [conn EXCEPT ![p] = "none"]
    /\ pc' = [pc EXCEPT ![p] = IF head.kind = "transportError" THEN "decode" ELSE "read"]
    /\ UNCHANGED <<client, ctor, op, req, args, seen, stored, loaded, uri, payload,
                   ncall, nreq, hops, resent, result, calls>>

\* ioutil.ReadAll(resp.Body) returns: the body of the response, or the
\* failure to read it.
ReadBody(p, rsp) ==
    /\ Running
    /\ pc[p] = "read"
    /\ rsp.kind \in {"body", "readError"}
    /\ rsp.code = resp[p].code
    /\ resp' = [resp EXCEPT ![p] = rsp]
    /\ pc' = [pc EXCEPT ![p] = "decode"]
    /\ UNCHANGED <<client, ctor, op, req, args, seen, stored, loaded, uri, payload,
                   http, result, calls>>

\* What the operation returns for the response it got.
Outcome(o, r, rsp) ==
    CASE o = "PostMessage" ->
           [err |-> PostMessageOutcome(r.AuthTest, rsp, BodyOf(rsp)), list |-> NilSlice]
      [] o = "PostMessage0" ->
           [err |-> PostMessageOutcome0(rsp, BodyOf(rsp)), list |-> NilSlice]
      [] o = "RoomHistory" -> RoomHistoryOutcome(rsp, BodyOf(rsp))
      [] o = "RoomList" -> RoomListOutcome(rsp, BodyOf(rsp))
      [] o = "RoomList0" -> RoomListOutcome0(rsp, BodyOf(rsp))

\* The response is decoded and the operation returns.
Finish(p) ==
    /\ Running
    /\ pc[p] = "decode"
    /\ result' = [result EXCEPT ![p] = Outcome(op[p], req[p], resp[p])]
    /\ pc' = [pc EXCEPT ![p] = "returned"]
    /\ UNCHANGED <<client, ctor, op, req, args, seen, stored, loaded, uri, payload,
                   http, resp, calls>>

\* The caller takes the result; its next call starts afresh.
Return(p) ==
    /\ Running
    /\ pc[p] = "returned"
    /\ pc' = [pc EXCEPT ![p] = "idle"]
    /\ op' = [op EXCEPT ![p] = "none"]
    /\ req' = [req EXCEPT ![p] = NoRequest]
    /\ args' = [args EXCEPT ![p] = NoArgs]
    /\ seen' = [seen EXCEPT ![p] = "unset"]
    /\ stored' = [stored EXCEPT ![p] = {}]
    /\ loaded' = [loaded EXCEPT ![p] = NoHeader]
    /\ uri' = [uri EXCEPT ![p] = NoURI]
    /\ payload' = [payload EXCEPT ![p] = NilValues]
    /\ ncall' = [ncall EXCEPT ![p] = 0]
    /\ nreq' = [nreq EXCEPT ![p] = 0]
    /\ hops' = [hops EXCEPT ![p] = 0]
    /\ resent' = [resent EXCEPT ![p] = 0]
    /\ method' = [method EXCEPT ![p] = "none"]
    /\ conn' = [conn EXCEPT ![p] = "none"]
    /\ resp' = [resp EXCEPT ![p] = NoResponse]
    /\ result' = [result EXCEPT ![p] = NoResult]
    /\ calls' = [calls EXCEPT ![p] = @ + 1]
    /\ UNCHANGED <<client, ctor>>

\* One caller, every request and every response; the server redirects
\* MaxHops times at most and no request is lost.
Next ==
    \E p \in Solo :
       \/ \E inv \in Invocations : Call(p, inv)
       \/ CheckBaseURL(p)
       \/ \E w \in {"ptr", "len"} : StoreBaseURL(p, w)
       \/ \E w \in {"ptr", "len"} : LoadBaseURL(p, w)
       \/ Prepare(p)
       \/ Send(p)
       \/ \E c \in Conns : Transmit(p, c)
       \/ \E code \in RedirectCodes : hops[p] < MaxHops /\ Redirect(p, code)
       \/ \E head \in Heads : Receive(p, head)
       \/ \E rsp \in Responses : ReadBody(p, rsp)
       \/ Finish(p)
       \/ Return(p)

Spec == Init /\ [][Next]_vars

\* Two callers sharing the Client, their steps interleaved; every request
\* goes out on a connection of its own and is answered without a redirect.
NextConc ==
    \E p \in Callers :
       \/ \E inv \in InvocationsConc : Call(p, inv)
       \/ CheckBaseURL(p)
       \/ \E w \in {"ptr", "len"} : StoreBaseURL(p, w)
       \/ \E w \in {"ptr", "len"} : LoadBaseURL(p, w)
       \/ Prepare(p)
       \/ Send(p)
       \/ Transmit(p, "fresh")
       \/ \E head \in HeadsConc : Receive(p, head)
       \/ \E rsp \in ResponsesConc : ReadBody(p, rsp)
       \/ Finish(p)
       \/ Return(p)

SpecConc == Init /\ [][NextConc]_vars

\* One caller, a server that redirects without end and connections that
\* lose a request MaxResends times at most: the requests one call to
\* net/http puts on the wire.
NextWire ==
    \E p \in Solo :
       \/ \E inv \in InvocationsConc : Call(p, inv)
       \/ CheckBaseURL(p)
       \/ \E w \in {"ptr", "len"} : StoreBaseURL(p, w)
       \/ \E w \in {"ptr", "len"} : LoadBaseURL(p, w)
       \/ Prepare(p)
       \/ Send(p)
       \/ \E c \in Conns : Transmit(p, c)
       \/ \E code \in RedirectCodes : Redirect(p, code)
       \/ resent[p] < MaxResends /\ Resend(p)
       \/ \E head \in HeadsWire : Receive(p, head)
       \/ \E rsp \in ResponsesWire : ReadBody(p, rsp)
       \/ Finish(p)
       \/ Return(p)

SpecWire == Init /\ [][NextWire]_vars

(***************************************************************************)
(* Reading a body as the wire format describes it, for the statements      *)
(* below: the members of the JSON text, looked up by name.                 *)
(***************************************************************************)
\* The values of the members of j called key (ignoring case), in the order
\* of the text: a text may repeat a member.
Named(j, key) ==
    IF j.t # "object" THEN <<>>
    ELSE LET at == SelectSeq(j.o, LAMBDA m : FoldKey(m[1]) = key)
         IN [i \in DOMAIN at |-> at[i][2]]

\* The last of the values vs of the kind t, none when there is none.
None == [t |-> "none"]

LastOf(vs, t) ==
    LET at == {i \in DOMAIN vs : vs[i].t = t}
    IN IF at = {} THEN None ELSE vs[CHOOSE i \in at : \A k \in at : k <= i]

\* The objects among vs as one object: a member that repeats adds to what
\* the earlier ones gave.
RECURSIVE Merged(_)
Merged(vs) ==
    IF vs = <<>> THEN JObj(<<>>)
    ELSE JObj((IF Head(vs).t = "object" THEN Head(vs).o ELSE <<>>) \o Merged(Tail(vs)).o)

\* The values vs after the last null among them: null clears what precedes.
RECURSIVE SinceNull(_)
SinceNull(vs) ==
    IF \A i \in DOMAIN vs : vs[i].t # "null" THEN vs ELSE SinceNull(Tail(vs))

\* The text is JSON that a Go struct accepts: an object, or null.
TopDecodes(b) == b.t \in {"object", "null"}

TextMember(j, key) ==
    \A i \in DOMAIN Named(j, key) : Named(j, key)[i].t \in {"null", "string"}

IntMember(j, key) ==
    \A i \in DOMAIN Named(j, key) :
       \/ Named(j, key)[i].t = "null"
       \/ Named(j, key)[i].t = "number" /\ Named(j, key)[i].int

\* The members called key are acceptable where a HipchatError is expected.
ErrorShaped(j, key) ==
    /\ \A i \in DOMAIN Named(j, key) : Named(j, key)[i].t \in {"null", "object"}
    /\ IntMember(Merged(Named(j, key)), k_code)
    /\ TextMember(Merged(Named(j, key)), k_type)
    /\ TextMember(Merged(Named(j, key)), k_message)

TextOf(j, key) ==
    IF LastOf(Named(j, key), "string") = None THEN ""
    ELSE LastOf(Named(j, key), "string").s

IntOf(j, key) ==
    IF LastOf(Named(j, key), "number") = None THEN 0
    ELSE LastOf(Named(j, key), "number").n

\* The body's status member decodes / is the literal "sent".
StatusDecodes(b) == TopDecodes(b) /\ TextMember(b, k_status)

StatusIsSent(b) == StatusDecodes(b) /\ TextOf(b, k_status) = "sent"

\* The body's error member, as an ErrorResponse holds it.
ErrorOf(b) == Merged(Named(b, k_error))

\* The body's error.message, error.code, error.type ("" and 0 when absent).
ErrorMessage(b) == TextOf(ErrorOf(b), k_message)

ErrorCode(b) == IntOf(ErrorOf(b), k_code)

ErrorType(b) == TextOf(ErrorOf(b), k_type)

\* The body decodes in the error shape {"error": {code, type, message}}.
ErrorDecodes(b) == TopDecodes(b) /\ ErrorShaped(b, k_error)

\* The body is an error response with all three members.
IsErrorResponse(b) ==
    /\ ErrorDecodes(b)
    /\ LastOf(Named(b, k_error), "object") # None
    /\ LastOf(Named(ErrorOf(b), k_code), "number") # None
    /\ LastOf(Named(ErrorOf(b), k_type), "string") # None
    /\ LastOf(Named(ErrorOf(b), k_message), "string") # None

IsDecodeError(e) == e.kind \in {"json.SyntaxError", "json.UnmarshalTypeError"}

RequiredMissing(r) == r.RoomId = "" \/ r.From = "" \/ r.Message = ""

PastPrepare(p) == pc[p] \in {"send", "dial", "await", "read", "decode", "returned"}

(***************************************************************************)
(* The statements.                                                         *)
(***************************************************************************)
\* C1: a PostMessage whose MessageRequest has an empty RoomId, From or
\* Message returns a non-nil validation error and never issues an HTTP
\* request, whatever Notify, Color, MessageFormat, AuthTest, the token and
\* the BaseURL are.
C1_ValidationBeforeRequest ==
    \A p \in Callers :
       op[p] \in {"PostMessage", "PostMessage0"} /\ RequiredMissing(req[p]) =>
          /\ ncall[p] = 0 /\ nreq[p] = 0
          /\ pc[p] \notin {"send", "dial", "await", "read", "decode"}
          /\ resp[p] = NoResponse
          /\ pc[p] = "returned" =>
                /\ result[p].err # NoError
                /\ result[p].err.kind = "errorString"

C1_Witness ==
    /\ pc["c1"] = "returned"
    /\ op["c1"] = "PostMessage"
    /\ req["c1"].From = "" /\ req["c1"].RoomId # "" /\ req["c1"].Message # ""
    /\ req["c1"].Notify /\ req["c1"].AuthTest /\ req["c1"].Color # ""
    /\ ctor.client.BaseURL = StringHeader(CustomBaseURL)
    /\ result["c1"].err = ValidationError
    /\ ncall["c1"] = 0 /\ nreq["c1"] = 0

\* The keys the payload of a request is to have.
ExpectedKeys(r) ==
    {"room_id", "from", "message"}
    \cup (IF r.Notify THEN {"notify"} ELSE {})
    \cup (IF r.Color # "" THEN {"color"} ELSE {})
    \cup (IF r.MessageFormat # "" THEN {"message_format"} ELSE {})

\* C2: for a MessageRequest with non-empty RoomId, From and Message the form
\* payload has exactly the keys room_id, from, message (with the fields'
\* values), notify ("1") iff Notify, color iff Color is non-empty,
\* message_format iff MessageFormat is non-empty, and no other key
\* (AuthTest adds none).
C2_PayloadKeys ==
    \A p \in Callers :
       /\ op[p] \in {"PostMessage", "PostMessage0"}
       /\ PastPrepare(p)
       /\ ~RequiredMissing(req[p])
       => /\ DOMAIN payload[p] = ExpectedKeys(req[p])
          /\ payload[p]["room_id"] = <<req[p].RoomId>>
          /\ payload[p]["from"] = <<req[p].From>>
          /\ payload[p]["message"] = <<req[p].Message>>
          /\ req[p].Notify => payload[p]["notify"] = <<"1">>
          /\ req[p].Color # "" => payload[p]["color"] = <<req[p].Color>>
          /\ req[p].MessageFormat # "" =>
                payload[p]["message_format"] = <<req[p].MessageFormat>>

C2_Witness ==
    /\ pc["c1"] = "send"
    /\ op["c1"] = "PostMessage"
    /\ req["c1"].Notify /\ req["c1"].AuthTest
    /\ req["c1"].Color = "purple" /\ req["c1"].MessageFormat = ""
    /\ DOMAIN payload["c1"] = {"room_id", "from", "message", "notify", "color"}

\* C3: for a valid MessageRequest with AuthTest false whose body was read,
\* PostMessage returns nil iff the body decodes with status "sent"; for a
\* body that decodes with any other status (absent and empty included) it
\* returns a non-nil HipchatError whose message is the body's error.message;
\* a body that does not decode (as the status shape, or then as the error
\* shape) yields the non-nil decode error.
C3_StatusSent ==
    \A p \in Callers :
       /\ pc[p] = "returned"
       /\ op[p] = "PostMessage"
       /\ ~req[p].AuthTest
       /\ resp[p].kind = "body"
       => LET b == BodyOf(resp[p])
              e == result[p].err
          IN /\ e = NoError <=> StatusIsSent(b)
             /\ StatusDecodes(b) /\ ~StatusIsSent(b) /\ ErrorDecodes(b) =>
                   /\ e.kind = "HipchatError"
                   /\ e.Message = ErrorMessage(b)
             /\ ~StatusDecodes(b) => IsDecodeError(e)
             /\ ~StatusIsSent(b) /\ ~ErrorDecodes(b) => IsDecodeError(e)

C3_Witness ==
    /\ pc["c1"] = "returned"
    /\ op["c1"] = "PostMessage"
    /\ ~req["c1"].AuthTest
    /\ resp["c1"].kind = "body" /\ resp["c1"].code = 200
    /\ TextOf(BodyOf(resp["c1"]), k_status) = "queued"
    /\ ErrorMessage(BodyOf(resp["c1"])) = "x"
    /\ result["c1"].err.kind = "HipchatError"
    /\ result["c1"].err.Message = "x"

ListOps == {"RoomList", "RoomHistory", "RoomList0"}

\* C4: RoomList and RoomHistory, on a status other than 200 with a JSON
\* error response as body, return a non-nil error whose message is the
\* body's error.message, with a nil list; no list is ever returned from a
\* response that is not 200, and whenever the error is non-nil (transport,
\* read, decode or remote error) the list is nil.
C4_ErrorMeansNilList ==
    \A p \in Callers :
       pc[p] = "returned" /\ op[p] \in ListOps =>
          LET b == BodyOf(resp[p])
              r == result[p]
          IN /\ resp[p].kind = "body" /\ resp[p].code # 200 /\ IsErrorResponse(b) =>
                   /\ r.err # NoError
                   /\ r.err.Message = ErrorMessage(b)
                   /\ r.list = NilSlice
             /\ resp[p].code # 200 => r.err # NoError /\ r.list = NilSlice
             /\ resp[p].kind # "body" => r.err # NoError
             /\ r.err # NoError => r.list = NilSlice

C4_Witness ==
    /\ pc["c1"] = "returned"
    /\ op["c1"] = "RoomList"
    /\ resp["c1"].kind = "body" /\ resp["c1"].code = 401
    /\ LastOf(Named(BodyOf(resp["c1"]), k_rooms), "array") # None
    /\ ErrorMessage(BodyOf(resp["c1"])) = "bad token"
    /\ result["c1"].err.Message = "bad token"
    /\ result["c1"].list = NilSlice

CurrentOps == {"PostMessage", "RoomList", "RoomHistory"}

\* C5 as stated: every invocation of PostMessage, RoomList or RoomHistory
\* has issued exactly one HTTP request when it returns.
C5_ExactlyOneRequest ==
    \A p \in Callers :
       pc[p] = "returned" /\ op[p] \in CurrentOps => nreq[p] = 1

\* What holds of the counters of every call in every state.
C5_State ==
    \A p \in Callers :
       /\ ncall[p] <= 1
       /\ pc[p] \in {"dial", "await", "read", "decode"} => ncall[p] = 1
       /\ pc[p] = "returned" =>
             ncall[p] = IF /\ op[p] \in {"PostMessage", "PostMessage0"}
                           /\ RequiredMissing(req[p])
                        THEN 0 ELSE 1
       /\ ncall[p] = 0 => nreq[p] = 0
       /\ hops[p] < RedirectLimit
       /\ nreq[p] \in {hops[p] + resent[p], hops[p] + resent[p] + 1}
       /\ pc[p] \in {"await", "read"} => nreq[p] = hops[p] + resent[p] + 1
       /\ pc[p] \in {"decode", "returned"} /\ resp[p].kind \in {"body", "readError"} =>
             nreq[p] = hops[p] + resent[p] + 1

\* C5 (amended): an invocation never calls net/http (http.PostForm, http.Get)
\* a second time, and when it returns it has called it exactly once, whatever
\* error it returns (transport, read, decode, remote), except a PostMessage
\* that fails validation, which has not called it.  The HTTP requests of
\* the one call are net/http's: one, one more for every redirect it follows
\* (fewer than RedirectLimit) and one more for every request it sends again
\* after a connection lost it; none when the call fails before a request is
\* out.  Once the call to net/http has returned, whatever the operation
\* reads, decodes or returns, no further request goes out.
C5_AtMostOneCall ==
    [][/\ C5_State
       /\ C5_State'
       /\ \A p \in Callers :
             pc[p] \in {"read", "decode", "returned"} =>
                /\ nreq'[p] <= nreq[p]
                /\ ncall'[p] <= ncall[p]]_vars

C5_Witness ==
    /\ pc["c1"] = "returned"
    /\ op["c1"] = "RoomList"
    /\ resp["c1"].kind = "body" /\ resp["c1"].code = 200
    /\ IsDecodeError(result["c1"].err)
    /\ ncall["c1"] = 1
    /\ nreq["c1"] = 3 /\ hops["c1"] = 1 /\ resent["c1"] = 1

\* C6: on a Client whose BaseURL is non-empty at construction, no call of
\* any caller, in any interleaving, writes a field of the Client: no caller
\* takes the default-filling branch and AuthToken and BaseURL keep their
\* values.
C6_PresetClientUnchanged ==
    ctor.client.BaseURL.len # 0 =>
       /\ client = ctor.client
       /\ \A p \in Callers :
             /\ pc[p] \notin {"store", "panicked"}
             /\ stored[p] = {}
             /\ seen[p] # "empty"

C6_Witness ==
    /\ ctor.client.BaseURL = StringHeader(CustomBaseURL)
    /\ calls["c1"] = 1 /\ calls["c2"] = 1
    /\ pc["c1"] = "await" /\ op["c1"] = "PostMessage"
    /\ pc["c2"] = "load" /\ op["c2"] = "RoomList"
    /\ loaded["c2"].len # -1
    /\ client = ctor.client

\* A header both of whose words hold a non-empty text.
FullHeader(h) == h.len # 0 /\ h.ptr # NilPtr

C7_State ==
    /\ ctor.by = "NewClient" => ctor.client.BaseURL = StringHeader(defaultBaseURL)
    /\ \A p \in Callers :
          /\ UsesBaseURLField(op[p]) /\ PastPrepare(p) =>
                /\ uri[p].base # ""
                /\ uri[p].base = IF ctor.client.BaseURL.len = 0 THEN defaultBaseURL
                                 ELSE ctor.client.BaseURL.ptr
          /\ UsesBaseURLField(op[p]) /\ pc[p] = "prepare" /\ seen[p] = "empty" =>
                client.BaseURL = StringHeader(defaultBaseURL)
          /\ UsesBaseURLField(op[p]) /\ pc[p] = "returned" => FullHeader(client.BaseURL)
          /\ seen[p] = "nonempty" => stored[p] = {}

\* C7: the base URL a request URL is built from is never empty: NewClient
\* returns a Client with the default BaseURL; a call on a Client with an
\* empty BaseURL sets it to the default before it builds its URL; once a
\* call has returned BaseURL is non-empty; and a non-empty BaseURL is never
\* replaced by another value.
C7_BaseURLNeverEmpty ==
    [][/\ C7_State
       /\ C7_State'
       /\ FullHeader(client.BaseURL) => client' = client]_vars

C7_Witness ==
    /\ ctor.client.BaseURL.len = 0
    /\ calls["c2"] = 0 /\ pc["c2"] = "idle"
    /\ calls["c1"] = 1 /\ pc["c1"] = "returned"
    /\ seen["c1"] = "nonempty"
    /\ op["c1"] = "RoomHistory"
    /\ uri["c1"].base = defaultBaseURL
    /\ client.BaseURL = StringHeader(defaultBaseURL)

\* The URL carries the auth_test flag (appended last).
HasAuthTestFlag(u) ==
    \E i \in DOMAIN u.query : u.query[i][1] = "auth_test"

\* The body decodes as an AuthResponse.
AuthDecodes(b) ==
    TopDecodes(b) /\ ErrorShaped(b, k_success) /\ ErrorShaped(b, k_error)

\* The error an AuthResponse holds: what the body's error members give
\* after the last null among them.
AuthErrorOf(b) == Merged(SinceNull(Named(b, k_error)))

AuthErrorSet(b) == SinceNull(Named(b, k_error)) # <<>>

\* C8: with AuthTest true the URL carries auth_test=true and the outcome is
\* decided from the AuthResponse alone: a populated error field is returned
\* with its code, type and message; a body that decodes without an error
\* field is a success whatever status it has or lacks.  With AuthTest false
\* the URL never carries the flag.
C8_AuthTest ==
    \A p \in Callers :
       op[p] = "PostMessage" /\ PastPrepare(p) =>
          LET b == BodyOf(resp[p])
              e == result[p].err
          IN /\ HasAuthTestFlag(uri[p]) <=> req[p].AuthTest
             /\ req[p].AuthTest =>
                   uri[p].query[Len(uri[p].query)] = <<"auth_test", <<"t", "r", "u", "e">>>>
             /\ pc[p] = "returned" /\ req[p].AuthTest /\ resp[p].kind = "body" =>
                   /\ AuthDecodes(b) /\ AuthErrorSet(b) =>
                         /\ e.kind = "*HipchatError"
                         /\ e.Code = IntOf(AuthErrorOf(b), k_code)
                         /\ e.Type = TextOf(AuthErrorOf(b), k_type)
                         /\ e.Message = TextOf(AuthErrorOf(b), k_message)
                   /\ AuthDecodes(b) /\ ~AuthErrorSet(b) => e = NoError
                   /\ ~AuthDecodes(b) => IsDecodeError(e)

C8_Witness ==
    /\ pc["c1"] = "returned"
    /\ op["c1"] = "PostMessage"
    /\ req["c1"].AuthTest
    /\ HasAuthTestFlag(uri["c1"])
    /\ resp["c1"].kind = "body"
    /\ LastOf(Named(BodyOf(resp["c1"]), k_success), "object") # None
    /\ Named(BodyOf(resp["c1"]), k_status) = <<>>
    /\ result["c1"].err = NoError

\* What getError is to return for a body: the parse failure, or the body's
\* error member as a HipchatError.
ExpectedGetError(b) ==
    IF b.t = "invalid" THEN SyntaxError
    ELSE IF ~ErrorDecodes(b) THEN UnmarshalTypeError
    ELSE [kind |-> "HipchatError", Code |-> ErrorCode(b), Type |-> ErrorType(b),
          Message |-> ErrorMessage(b)]

\* C9 as stated: whenever the response status is not 2xx (any of the three
\* operations), or PostMessage gets a 200 whose status is not "sent", the
\* operation returns getError's result for the body and never success.
C9_NonSuccessStatusIsError ==
    \A p \in Callers :
       /\ pc[p] = "returned"
       /\ op[p] \in CurrentOps
       /\ resp[p].kind = "body"
       /\ \/ resp[p].code \notin 200..299
          \/ /\ op[p] = "PostMessage" /\ ~req[p].AuthTest /\ resp[p].code = 200
             /\ StatusDecodes(BodyOf(resp[p])) /\ ~StatusIsSent(BodyOf(resp[p]))
       => /\ result[p].err # NoError
          /\ result[p].err = ExpectedGetError(BodyOf(resp[p]))

\* C9 (amended): RoomList and RoomHistory return getError's result, never
\* success, whenever the status is not 200; PostMessage (AuthTest false)
\* returns getError's result, never success, whenever the body decodes with
\* a status other than "sent".  PostMessage does not look at the status
\* code: a body with status "sent" is a success under any code.
C9_ErrorDecoderUse ==
    \A p \in Callers :
       pc[p] = "returned" /\ op[p] \in CurrentOps /\ resp[p].kind = "body" =>
          LET b == BodyOf(resp[p])
              e == result[p].err
          IN /\ op[p] \in {"RoomList", "RoomHistory"} /\ resp[p].code # 200 =>
                   e # NoError /\ e = ExpectedGetError(b)
             /\ op[p] = "PostMessage" /\ ~req[p].AuthTest
                /\ StatusDecodes(b) /\ ~StatusIsSent(b) =>
                   e # NoError /\ e = ExpectedGetError(b)
             /\ op[p] = "PostMessage" /\ ~req[p].AuthTest /\ StatusIsSent(b) =>
                   e = NoError

C9_Witness ==
    /\ pc["c1"] = "returned"
    /\ op["c1"] = "PostMessage"
    /\ ~req["c1"].AuthTest
    /\ resp["c1"].kind = "body" /\ resp["c1"].code = 401
    /\ IsErrorResponse(BodyOf(resp["c1"]))
    /\ result["c1"].err.kind = "HipchatError"
    /\ result["c1"].err.Message = "bad token"
    /\ result["c1"].err.Code = 401

\* Two callers are in calls that both found BaseURL empty.
BothFoundEmpty == \A p \in Callers : seen[p] = "empty"

\* C10: two callers on a Client with an empty BaseURL can both pass the
\* emptiness check and both store BaseURL; whenever they do, each builds
\* its URL from the default endpoint, neither reads a torn BaseURL, and
\* once both stores are complete BaseURL is the default.
C10_RacingCallersUseDefault ==
    BothFoundEmpty =>
       /\ \A p \in Callers :
             /\ pc[p] # "panicked"
             /\ pc[p] = "prepare" => loaded[p] = StringHeader(defaultBaseURL)
             /\ PastPrepare(p) => uri[p].base = defaultBaseURL
       /\ (\A p \in Callers : stored[p] = {"ptr", "len"}) =>
             client.BaseURL = StringHeader(defaultBaseURL)

C10_Witness ==
    /\ BothFoundEmpty
    /\ \A p \in Callers : stored[p] = {"ptr", "len"} /\ pc[p] = "returned"
    /\ op["c1"] = "PostMessage" /\ op["c2"] = "RoomList"
    /\ uri["c1"].base = defaultBaseURL /\ uri["c2"].base = defaultBaseURL
    /\ client.BaseURL = StringHeader(defaultBaseURL)

====
